---- MODULE Spec2Model ----
(***************************************************************************)
(* A model of the GENIE profiler (include/profiler.h, src/profiler.cpp):   *)
(* per-thread timer state, the shared registry of ProfileEntry values      *)
(* behind one mutex, the ScopedTimer guard, and the build without          *)
(* GENIE_PROFILE.  Time is the tick count of the steady clock; a duration  *)
(* is a difference of tick counts.                                         *)
(***************************************************************************)
EXTENDS Integers, Sequences, FiniteSets, TLC

\* ---------------------------------------------------------------- bounds
NumThreads == 2      \* threads of the cycle workload
MaxTime == 1         \* the steady clock runs from 0 to MaxTime
MaxOps == 4          \* profiler calls begun in one run
MaxDepth == 2        \* ScopedTimer objects alive at once on one thread
NumCycles == 2       \* start/stop cycles per thread in the cycle workload
MaxDumps == 2        \* calls of dump_profile in one run

Names == {"a", "b"}          \* region names the callers use
ByteCounts == {0, 3}         \* arguments of add_bytes
ExitPaths == {"fallthrough", "return", "exception"}
Paths == {"out.csv", "out.json"}
Threads == {1, 2}            \* the threads that make arbitrary calls
Workers == 1..NumThreads     \* the threads of the cycle workload
NoOwner == 0                 \* the mutex is free

VARIABLES
    clock,            \* std::chrono::steady_clock::now()
    thread_timers_,   \* per thread: region name -> TimerState
    entries_,         \* region name -> ProfileEntry
    mutex_,           \* owner of Profiler::mutex_, or NoOwner
    pc,               \* per thread: where it is inside a profiler call
    frame,            \* per thread: the locals of the call in progress; seen,
                      \* span, starts, scoped and stale are history kept beside them
    result,           \* per thread: the vector an entries() call is building
    guards,           \* per thread: the ScopedTimer objects alive, innermost last
    files,            \* path -> the lines of the file, or NoFile
    cerr,             \* the lines written to std::cerr
    cout,             \* the lines written to std::cout
    cycles,           \* per thread: cycles begun in the cycle workload
    ops,              \* profiler calls begun so far
    pending,          \* history: per thread and name, the starts not yet stopped
    tally,            \* history: per name, what has returned since the last clear
    last              \* history: the step taken last

vars == <<clock, thread_timers_, entries_, mutex_, pc, frame, result, guards,
          files, cerr, cout, cycles, ops, pending, tally, last>>

\* ------------------------------------------------------------- data types
\* ProfileEntry() : calls(0), total_seconds(0.0), total_bytes(0)
ProfileEntry == [name |-> "", calls |-> 0, total_seconds |-> 0, total_bytes |-> 0]

\* TimerState() : active(false); start_time is the clock's epoch
TimerState == [start_time |-> 0, active |-> FALSE]

EmptyMap == [k \in {} |-> ProfileEntry]

NoFile == <<<<"no such file">>>>
EarlierRun == <<<<"left by an earlier run">>>>
NoFrame == [key |-> "", elapsed |-> 0, bytes |-> 0, entry |-> ProfileEntry,
            visited |-> {}, seen |-> EmptyMap,
            span |-> 0, starts |-> 0, scoped |-> FALSE, stale |-> FALSE]
NoPending == [at |-> 0, count |-> 0, stale |-> FALSE]
NoTally == [stops |-> 0, secs |-> 0, scopes |-> 0]
NoStep == <<"none", "", 0>>

\* std::unordered_map::operator[]: the mapped value, value-initialised if absent
Lookup(map, key, default) == IF key \in DOMAIN map THEN map[key] ELSE default

\* the map after an assignment through the reference operator[] returned
Put(map, key, value) ==
    [k \in DOMAIN map \cup {key} |-> IF k = key THEN value ELSE map[k]]

\* field of the entry for a name, 0 when the registry has no such entry
Calls(n) == IF n \in DOMAIN entries_ THEN entries_[n].calls ELSE 0
Seconds(n) == IF n \in DOMAIN entries_ THEN entries_[n].total_seconds ELSE 0
Bytes(n) == IF n \in DOMAIN entries_ THEN entries_[n].total_bytes ELSE 0

Min(a, b) == IF a < b THEN a ELSE b

\* ------------------------------------------------------------------ mutex
\* std::lock_guard<std::mutex> lock(mutex_) blocks until the mutex is free
MutexUnguarded == TRUE
MutexFree == mutex_ = NoOwner

\* ~lock_guard() at the end of the scope: the owner of the mutex after it
UnlockForgotten(t) == t
Unlock(t) == NoOwner

\* ------------------------------------------------------------------ start
\* state.start_time = now(); state.active = true
StartKeepFirst(timers, key, now) ==
    IF key \in DOMAIN timers /\ timers[key].active THEN timers
    ELSE Put(timers, key, [start_time |-> now, active |-> TRUE])
StartTimer(timers, key, now) ==
    Put(timers, key, [start_time |-> now, active |-> TRUE])

\* thread_timers_ is thread_local: start reaches the calling thread's map only
StartShared(all, t, key, now) == [u \in DOMAIN all |-> StartTimer(all[u], key, now)]
StartThread(all, t, key, now) == [all EXCEPT ![t] = StartTimer(@, key, now)]

\* the effect of Profiler::start on the calling thread
start_body(t, n) ==
    /\ thread_timers_' = StartThread(thread_timers_, t, n, clock)
    /\ pending' = [pending EXCEPT ![t][n] =
                     [at |-> clock, count |-> Min(@.count + 1, 2), stale |-> FALSE]]

start(t, n) ==
    /\ pc[t] = "idle"
    /\ ops < MaxOps
    /\ ops' = ops + 1
    /\ start_body(t, n)
    /\ last' = <<"start", n, 0>>
    /\ UNCHANGED <<clock, entries_, mutex_, pc, frame, result, guards, files, cerr, cout,
                   cycles, tally>>

\* ------------------------------------------------------------------- stop
\* it == thread_timers_.end() || !it->second.active, negated
TimerFound(timers, key) == key \in DOMAIN timers
TimerActive(timers, key) == key \in DOMAIN timers /\ timers[key].active

\* duration<double>(stop_time - start_time).count()
ElapsedReversed(stop_time, start_time) == start_time - stop_time
Elapsed(stop_time, start_time) == stop_time - start_time

\* entry.name = key; entry.calls++; entry.total_seconds += elapsed
MergeStop(entry, key, elapsed) ==
    [entry EXCEPT !.name = key, !.calls = @ + 1, !.total_seconds = @ + elapsed]

\* it->second.active = false, it an iterator into the calling thread's map
StopShared(all, t, key) ==
    [u \in DOMAIN all |->
        IF key \in DOMAIN all[u] THEN [all[u] EXCEPT ![key].active = FALSE] ELSE all[u]]
StopKeepsActive(all, t, key) == all
StopThread(all, t, key) == [all EXCEPT ![t][key].active = FALSE]

\* Profiler::stop up to the lock: the early return, or elapsed and active = false
stop_body(t, n, scoped) ==
    LET stop_time == clock
        timers == thread_timers_[t]
    IN  IF ~TimerActive(timers, n)
        THEN /\ last' = <<IF last = <<"stop_merge_restarted", n, t>>
                          THEN "stop_noop_restarted" ELSE "stop_noop", n, t>>
             /\ tally' = IF scoped THEN [tally EXCEPT ![n].scopes = @ + 1] ELSE tally
             /\ UNCHANGED <<thread_timers_, pc, frame, pending>>
        ELSE /\ thread_timers_' = StopThread(thread_timers_, t, n)
             /\ frame' = [frame EXCEPT ![t] =
                            [NoFrame EXCEPT !.key = n,
                               !.elapsed = Elapsed(stop_time, timers[n].start_time),
                               !.span = clock - pending[t][n].at,
                               !.starts = pending[t][n].count,
                               !.scoped = scoped,
                               !.stale = pending[t][n].stale]]
             /\ pc' = [pc EXCEPT ![t] = "stop_acquire"]
             /\ pending' = [pending EXCEPT ![t][n] = NoPending]
             /\ last' = <<"stop", n, t>>
             /\ UNCHANGED tally

stop(t, n) ==
    /\ pc[t] = "idle"
    /\ ops < MaxOps
    /\ ops' = ops + 1
    /\ stop_body(t, n, FALSE)
    /\ UNCHANGED <<clock, entries_, mutex_, result, guards, files, cerr, cout, cycles>>

\* lock_guard lock(mutex_); auto& entry = entries_[key]
stop_acquire(t) ==
    /\ pc[t] = "stop_acquire"
    /\ MutexFree
    /\ mutex_' = t
    /\ entries_' = Put(entries_, frame[t].key, Lookup(entries_, frame[t].key, ProfileEntry))
    /\ frame' = [frame EXCEPT ![t].entry = Lookup(entries_, frame[t].key, ProfileEntry)]
    /\ pc' = [pc EXCEPT ![t] = "stop_merge"]
    /\ last' = <<"stop_acquire", frame[t].key, 0>>
    /\ UNCHANGED <<clock, thread_timers_, result, guards, files, cerr, cout, cycles, ops,
                   pending, tally>>

\* the three assignments to the entry, the unlock and the return
stop_merge(t) ==
    /\ pc[t] = "stop_merge"
    /\ entries_' = Put(entries_, frame[t].key,
                       MergeStop(frame[t].entry, frame[t].key, frame[t].elapsed))
    /\ mutex_' = Unlock(t)
    /\ pc' = [pc EXCEPT ![t] = "idle"]
    /\ frame' = [frame EXCEPT ![t] = NoFrame]
    /\ tally' = [tally EXCEPT ![frame[t].key] =
                   [stops |-> @.stops + (IF frame[t].starts > 0 THEN 1 ELSE 0),
                    secs |-> @.secs + frame[t].span,
                    scopes |-> @.scopes + (IF frame[t].scoped THEN 1 ELSE 0)]]
    /\ last' = <<IF frame[t].stale THEN "stop_merge_stale"
                 ELSE IF frame[t].starts = 2 THEN "stop_merge_restarted"
                 ELSE "stop_merge",
                 frame[t].key, t>>
    /\ UNCHANGED <<clock, thread_timers_, result, guards, files, cerr, cout, cycles, ops, pending>>

\* -------------------------------------------------------------- add_bytes
\* entry.name = key; entry.total_bytes += bytes
MergeBytesAsCall(entry, key, bytes) ==
    [entry EXCEPT !.name = key, !.calls = @ + 1, !.total_bytes = @ + bytes]
MergeBytes(entry, key, bytes) ==
    [entry EXCEPT !.name = key, !.total_bytes = @ + bytes]

\* lock_guard lock(mutex_); auto& entry = entries_[key]
add_bytes(t, n, b) ==
    /\ pc[t] = "idle"
    /\ ops < MaxOps
    /\ ops' = ops + 1
    /\ MutexFree
    /\ mutex_' = t
    /\ entries_' = Put(entries_, n, Lookup(entries_, n, ProfileEntry))
    /\ frame' = [frame EXCEPT ![t] =
                   [NoFrame EXCEPT !.key = n, !.bytes = b,
                                   !.entry = Lookup(entries_, n, ProfileEntry)]]
    /\ pc' = [pc EXCEPT ![t] = "add_bytes_merge"]
    /\ last' = <<"add_bytes", n, 0>>
    /\ UNCHANGED <<clock, thread_timers_, result, guards, files, cerr, cout, cycles, pending, tally>>

\* the two assignments to the entry, the unlock and the return
add_bytes_merge(t) ==
    /\ pc[t] = "add_bytes_merge"
    /\ entries_' = Put(entries_, frame[t].key,
                       MergeBytes(frame[t].entry, frame[t].key, frame[t].bytes))
    /\ mutex_' = Unlock(t)
    /\ pc' = [pc EXCEPT ![t] = "idle"]
    /\ frame' = [frame EXCEPT ![t] = NoFrame]
    /\ last' = <<"add_bytes_merge", frame[t].key, 0>>
    /\ UNCHANGED <<clock, thread_timers_, result, guards, files, cerr, cout, cycles, ops,
                   pending, tally>>

\* ---------------------------------------------------------------- entries
\* the comparator handed to std::sort
AscendingSeconds(x, y) == x.total_seconds < y.total_seconds
Before(x, y) == x.total_seconds > y.total_seconds

\* std::sort: some permutation in which no element is Before one that precedes it
SortOutcomes(s) ==
    LET k == Len(s)
        perms == { g \in [1..k -> 1..k] : \A i, j \in 1..k : i # j => g[i] # g[j] }
        outs == { [i \in 1..k |-> s[g[i]]] : g \in perms }
    IN  { r \in outs : \A i, j \in 1..k : i < j => ~Before(r[j], r[i]) }

\* lock_guard lock(mutex_); std::vector<ProfileEntry> result; result.reserve(...)
entries(t) ==
    /\ pc[t] = "idle"
    /\ ops < MaxOps
    /\ ops' = ops + 1
    /\ MutexFree
    /\ mutex_' = t
    /\ result' = [result EXCEPT ![t] = <<>>]
    /\ frame' = [frame EXCEPT ![t] = [NoFrame EXCEPT !.seen = entries_]]
    /\ pc' = [pc EXCEPT ![t] = "entries_copy"]
    /\ last' = <<"entries", "", 0>>
    /\ UNCHANGED <<clock, thread_timers_, entries_, guards, files, cerr, cout, cycles,
                   pending, tally>>

\* for (const auto& pair : entries_) result.push_back(pair.second): one turn of
\* the loop, the map visited in any order, or the way out of it
entries_copy(t) ==
    /\ pc[t] = "entries_copy"
    /\ IF DOMAIN entries_ \ frame[t].visited = {}
       THEN /\ pc' = [pc EXCEPT ![t] = "entries_sort"]
            /\ UNCHANGED <<result, frame>>
       ELSE \E n \in DOMAIN entries_ \ frame[t].visited :
               /\ result' = [result EXCEPT ![t] = Append(@, entries_[n])]
               /\ frame' = [frame EXCEPT ![t].visited = @ \cup {n}]
               /\ UNCHANGED pc
    /\ last' = <<"entries_copy", "", 0>>
    /\ UNCHANGED <<clock, thread_timers_, entries_, mutex_, guards, files, cerr, cout,
                   cycles, ops, pending, tally>>

\* std::sort(result.begin(), result.end(), ...), the mutex still held
entries_sort(t) ==
    /\ pc[t] = "entries_sort"
    /\ \E sorted \in SortOutcomes(result[t]) : result' = [result EXCEPT ![t] = sorted]
    /\ pc' = [pc EXCEPT ![t] = "entries_return"]
    /\ last' = <<"entries_sort", "", 0>>
    /\ UNCHANGED <<clock, thread_timers_, entries_, mutex_, frame, guards, files, cerr, cout,
                   cycles, ops, pending, tally>>

\* return result: the vector goes to the caller and the lock_guard unlocks
entries_return(t) ==
    /\ pc[t] = "entries_return"
    /\ mutex_' = Unlock(t)
    /\ pc' = [pc EXCEPT ![t] = "idle"]
    /\ result' = [result EXCEPT ![t] = <<>>]
    /\ frame' = [frame EXCEPT ![t] = NoFrame]
    /\ last' = <<"entries_return", "", 0>>
    /\ UNCHANGED <<clock, thread_timers_, entries_, guards, files, cerr, cout,
                   cycles, ops, pending, tally>>

\* ------------------------------------------------------------------ clear
\* what clear() leaves of the per-thread timers: all of them
TimersReset(timers) == [t \in DOMAIN timers |-> [n \in {} |-> TimerState]]
TimersAfterClear(timers) == timers

\* lock_guard lock(mutex_)
clear(t) ==
    /\ pc[t] = "idle"
    /\ ops < MaxOps
    /\ ops' = ops + 1
    /\ MutexFree
    /\ mutex_' = t
    /\ pc' = [pc EXCEPT ![t] = "clear_erase"]
    /\ last' = <<"clear", "", 0>>
    /\ UNCHANGED <<clock, thread_timers_, entries_, frame, result, guards, files, cerr, cout,
                   cycles, pending, tally>>

\* entries_.clear(), the unlock and the return
clear_erase(t) ==
    /\ pc[t] = "clear_erase"
    /\ entries_' = EmptyMap
    /\ thread_timers_' = TimersAfterClear(thread_timers_)
    /\ mutex_' = Unlock(t)
    /\ pc' = [pc EXCEPT ![t] = "idle"]
    /\ tally' = [n \in Names |-> NoTally]
    /\ pending' = [u \in DOMAIN pending |-> [n \in Names |->
                     [pending[u][n] EXCEPT !.stale = (pending[u][n].count > 0)]]]
    /\ last' = <<"clear_erase", "", 0>>
    /\ UNCHANGED <<clock, frame, result, guards, files, cerr, cout, cycles, ops>>

\* ------------------------------------------------------------ ScopedTimer
\* ~ScopedTimer() runs on every way out of the scope and calls stop(name)
DtorSkipsOnException(path) == path # "exception"
DtorCallsStop(path) == TRUE

\* explicit ScopedTimer(const char* n) : name(n) { instance().start(name); }
ScopedTimer_ctor(t, n) ==
    /\ pc[t] = "idle"
    /\ ops < MaxOps
    /\ Len(guards[t]) < MaxDepth
    /\ ops' = ops + 1
    /\ guards' = [guards EXCEPT ![t] = Append(@, n)]
    /\ start_body(t, n)
    /\ last' = <<"start", n, 0>>
    /\ UNCHANGED <<clock, entries_, mutex_, pc, frame, result, files, cerr, cout, cycles, tally>>

\* ~ScopedTimer() { instance().stop(name); } for the innermost guard alive
ScopedTimer_dtor(t, path) ==
    /\ pc[t] = "idle"
    /\ guards[t] # <<>>
    /\ ops < MaxOps
    /\ ops' = ops + 1
    /\ guards' = [guards EXCEPT ![t] = SubSeq(@, 1, Len(@) - 1)]
    /\ IF DtorCallsStop(path)
       THEN stop_body(t, guards[t][Len(guards[t])], TRUE)
       ELSE UNCHANGED <<thread_timers_, pc, frame, pending, tally, last>>
    /\ UNCHANGED <<clock, entries_, mutex_, result, files, cerr, cout, cycles>>

\* ----------------------------------------------------------- dump_profile
\* entries.empty()
NeverEmpty(vec) == FALSE
EntriesEmpty(vec) == vec = <<>>

\* filename.size() >= 5 && filename.substr(filename.size() - 5) == ".json"
IsJson(filename) ==
    Len(filename) >= 5 /\ SubSeq(filename, Len(filename) - 4, Len(filename)) = ".json"

\* filename.size() >= 4 && filename.substr(filename.size() - 4) == ".csv"
IsCsv(filename) ==
    Len(filename) >= 4 /\ SubSeq(filename, Len(filename) - 3, Len(filename)) = ".csv"

\* the test that picks the JSON branch
NotCsv(filename) == ~IsCsv(filename)
JsonChosen(filename) == IsJson(filename)

\* std::fixed << std::setprecision(6) of num/den: the whole part and the six
\* digits after the point, the nearest such value
Fixed6(num, den) ==
    LET micros == (2 * num * 1000000 + den) \div (2 * den)
    IN  <<micros \div 1000000, micros % 1000000>>

\* (entry.calls > 0) ? (entry.total_seconds / entry.calls) : 0.0, as num/den
AvgWholeSeconds(entry) ==
    IF entry.calls > 0 THEN <<entry.total_seconds \div entry.calls, 1>> ELSE <<0, 1>>
Avg(entry) ==
    IF entry.calls > 0 THEN <<entry.total_seconds, entry.calls>> ELSE <<0, 1>>

CsvHeader == "name,calls,total_seconds,avg_seconds,total_bytes"

\* one line of the CSV body: the five fields between the commas
CsvRow(entry) ==
    <<entry.name, entry.calls, Fixed6(entry.total_seconds, 1),
      Fixed6(Avg(entry)[1], Avg(entry)[2]), entry.total_bytes>>

\* the header line and one line per entry, in the order of the vector
CsvText(vec) == <<<<CsvHeader>>>> \o [i \in 1..Len(vec) |-> CsvRow(vec[i])]

\* the lines of one object of the JSON array; total_bytes only when it is > 0,
\* and a comma after the brace of every object but the last
JsonObject(entry, is_last) ==
    <<<<"  {">>, <<"name", entry.name>>, <<"calls", entry.calls>>,
      <<"total_seconds", Fixed6(entry.total_seconds, 1)>>>>
    \o (IF entry.total_bytes > 0 THEN <<<<"total_bytes", entry.total_bytes>>>> ELSE <<>>)
    \o <<<<IF is_last THEN "  }" ELSE "  },">>>>

RECURSIVE JsonObjects(_, _)
JsonObjects(vec, i) ==
    IF i > Len(vec) THEN <<>>
    ELSE JsonObject(vec[i], i + 1 > Len(vec)) \o JsonObjects(vec, i + 1)

JsonText(vec) == <<<<"[">>>> \o JsonObjects(vec, 1) \o <<<<"]">>>>

\* what dump_profile leaves on disk: nothing new for an empty vector or a file
\* that does not open, else the file truncated and written in the chosen format
DumpFiles(fs, vec, filename, opens) ==
    IF EntriesEmpty(vec) \/ ~opens THEN fs
    ELSE [fs EXCEPT ![filename] =
            IF JsonChosen(filename) THEN JsonText(vec) ELSE CsvText(vec)]

\* what it writes to std::cerr
DumpCerr(vec, filename, opens) ==
    IF EntriesEmpty(vec) THEN <<<<"Warning: No profiling data collected">>>>
    ELSE IF ~opens THEN <<<<"Error: Could not open profile output file: ", filename>>>>
    ELSE <<>>

\* what it writes to std::cout
DumpCout(vec, filename, opens) ==
    IF EntriesEmpty(vec) \/ ~opens THEN <<>>
    ELSE <<<<"Profiling data written to: ", filename>>>>

\* dump_profile(entries, filename); opens says whether std::ofstream out(filename)
\* succeeds
dump_profile(t, vec, filename, opens) ==
    /\ pc[t] = "idle"
    /\ ops < MaxOps
    /\ Len(cerr) + Len(cout) < MaxDumps
    /\ ops' = ops + 1
    /\ files' = DumpFiles(files, vec, filename, opens)
    /\ cerr' = cerr \o DumpCerr(vec, filename, opens)
    /\ cout' = cout \o DumpCout(vec, filename, opens)
    /\ last' = <<"dump_profile", filename, t>>
    /\ UNCHANGED <<clock, thread_timers_, entries_, mutex_, pc, frame, result, guards,
                   cycles, pending, tally>>

\* -------------------------------------------------------------- the clock
Tick ==
    /\ clock < MaxTime
    /\ clock' = clock + 1
    /\ UNCHANGED <<thread_timers_, entries_, mutex_, pc, frame, result, guards,
                   files, cerr, cout, cycles, ops, pending, tally, last>>

\* ---------------------------------------------------------- specification
InitOf(T) ==
    /\ clock = 0
    /\ thread_timers_ = [t \in T |-> [n \in {} |-> TimerState]]
    /\ entries_ = EmptyMap
    /\ mutex_ = NoOwner
    /\ pc = [t \in T |-> "idle"]
    /\ frame = [t \in T |-> NoFrame]
    /\ result = [t \in T |-> <<>>]
    /\ guards = [t \in T |-> <<>>]
    /\ cycles = [t \in T |-> 0]
    /\ cerr = <<>>
    /\ cout = <<>>
    /\ ops = 0
    /\ pending = [t \in T |-> [n \in Names |-> NoPending]]
    /\ tally = [n \in Names |-> NoTally]
    /\ last = NoStep

\* the singleton before any call, and no file written yet
Init == InitOf(Threads) /\ files = [p \in Paths |-> NoFile]

Next ==
    \/ Tick
    \/ \E t \in Threads, n \in Names : start(t, n)
    \/ \E t \in Threads, n \in Names : stop(t, n)
    \/ \E t \in Threads : stop_acquire(t)
    \/ \E t \in Threads : stop_merge(t)
    \/ \E t \in Threads, n \in Names, b \in ByteCounts : add_bytes(t, n, b)
    \/ \E t \in Threads : add_bytes_merge(t)
    \/ \E t \in Threads : entries(t)
    \/ \E t \in Threads : entries_copy(t)
    \/ \E t \in Threads : entries_sort(t)
    \/ \E t \in Threads : entries_return(t)
    \/ \E t \in Threads : clear(t)
    \/ \E t \in Threads : clear_erase(t)

\* any threads making any calls of start, stop, add_bytes, entries and clear
Spec == Init /\ [][Next]_vars

\* the steps a thread takes between the lock and the return of a call
Proceed(t) ==
    \/ stop_merge(t)
    \/ add_bytes_merge(t)
    \/ entries_copy(t)
    \/ entries_sort(t)
    \/ entries_return(t)
    \/ clear_erase(t)

\* the calls of Next with the clock standing still: no guard reads the clock
NextFair ==
    \/ \E t \in Threads, n \in Names : start(t, n)
    \/ \E t \in Threads, n \in Names : stop(t, n)
    \/ \E t \in Threads : stop_acquire(t)
    \/ \E t \in Threads, n \in Names, b \in ByteCounts : add_bytes(t, n, b)
    \/ \E t \in Threads : entries(t)
    \/ \E t \in Threads : clear(t)
    \/ \E t \in Threads : Proceed(t)

\* fair scheduling: a thread that can run does run, and a thread waiting for
\* the mutex gets it if it is free again and again
SpecFair ==
    /\ Init
    /\ [][NextFair]_vars
    /\ \A t \in Threads : WF_vars(Proceed(t)) /\ SF_vars(stop_acquire(t))

\* ----------------------------------------------------- the cycle workload
\* every thread runs NumCycles times: start(CycleName); ...; stop(CycleName)
CycleName == "a"

cycle_start(t) ==
    /\ pc[t] = "idle"
    /\ pending[t][CycleName].count = 0
    /\ cycles[t] < NumCycles
    /\ cycles' = [cycles EXCEPT ![t] = @ + 1]
    /\ start_body(t, CycleName)
    /\ last' = <<"start", CycleName, 0>>
    /\ UNCHANGED <<clock, entries_, mutex_, pc, frame, result, guards, files, cerr, cout,
                   ops, tally>>

cycle_stop(t) ==
    /\ pc[t] = "idle"
    /\ pending[t][CycleName].count > 0
    /\ stop_body(t, CycleName, FALSE)
    /\ UNCHANGED <<clock, entries_, mutex_, result, guards, files, cerr, cout, cycles, ops>>

InitCycles == InitOf(Workers) /\ files = [p \in Paths |-> NoFile]

NextCycles ==
    \/ Tick
    \/ \E t \in Workers : cycle_start(t)
    \/ \E t \in Workers : cycle_stop(t)
    \/ \E t \in Workers : stop_acquire(t)
    \/ \E t \in Workers : stop_merge(t)

SpecCycles == InitCycles /\ [][NextCycles]_vars

\* every thread has finished its cycles
Finished ==
    \A t \in Workers :
        cycles[t] = NumCycles /\ pc[t] = "idle" /\ pending[t][CycleName].count = 0

\* ------------------------------------------------- callers of ScopedTimer
\* the regions are timed through ScopedTimer objects only
NextScoped ==
    \/ Tick
    \/ \E t \in Threads, n \in Names : ScopedTimer_ctor(t, n)
    \/ \E t \in Threads, path \in ExitPaths : ScopedTimer_dtor(t, path)
    \/ \E t \in Threads : stop_acquire(t)
    \/ \E t \in Threads : stop_merge(t)
    \/ \E t \in Threads : clear(t)
    \/ \E t \in Threads : clear_erase(t)

SpecScoped == Init /\ [][NextScoped]_vars

\* ------------------------------------------------- callers of dump_profile
\* the thread that writes the report, the names it may give the file, and the
\* vectors it may pass
Main == {1}
DumpPaths == {"out.json", ".json", "json", "out.csv", "out.dat"}
DumpVectors ==
    { <<>>,
      <<[name |-> "a", calls |-> 4, total_seconds |-> 2, total_bytes |-> 0]>>,
      <<[name |-> "b", calls |-> 3, total_seconds |-> 2, total_bytes |-> 3],
        [name |-> "a", calls |-> 0, total_seconds |-> 0, total_bytes |-> 3]>> }

\* the files may exist before the program runs
InitDump ==
    /\ InitOf(Main)
    /\ \E content \in {NoFile, EarlierRun} : files = [p \in DumpPaths |-> content]

\* the program reports the bytes of one region and writes reports
NextDump ==
    \/ \E t \in Main : add_bytes(t, "a", 3)
    \/ \E t \in Main : add_bytes_merge(t)
    \/ \E t \in Main, vec \in DumpVectors, filename \in DumpPaths, opens \in BOOLEAN :
          dump_profile(t, vec, filename, opens)

SpecDump == InitDump /\ [][NextDump]_vars

\* ------------------------------------------- the build without GENIE_PROFILE
\* void start(const char*) {} and void stop(const char*) {}
StubTimers(all, t, key, now) == all

\* void add_bytes(const char*, uint64_t) {} and void clear() {}
StubRegistry(map, key, bytes) == map

\* std::vector<ProfileEntry> entries() const { return std::vector<ProfileEntry>(); }
StubEntries(map) == <<>>

\* inline void dump_profile(const std::vector<ProfileEntry>&, const std::string&) {}
StubDump(fs, vec, path) == fs

\* vectors a caller may hand to dump_profile
DumpArgs == {<<>>, <<[name |-> "a", calls |-> 1, total_seconds |-> 1, total_bytes |-> 0]>>}

\* a call of one of the inline stubs: op names it, and the state is what the stub leaves
stub_call(t, op, n, timers, registry, vec, fs) ==
    /\ pc[t] = "idle"
    /\ ops < MaxOps
    /\ ops' = ops + 1
    /\ thread_timers_' = timers
    /\ entries_' = registry
    /\ result' = vec
    /\ files' = fs
    /\ last' = <<op, n, 0>>
    /\ UNCHANGED <<clock, mutex_, pc, frame, guards, cerr, cout, cycles, pending, tally>>

start_off(t, n) ==
    stub_call(t, "start", n, StubTimers(thread_timers_, t, n, clock),
              entries_, result, files)

stop_off(t, n) ==
    stub_call(t, "stop", n, StubTimers(thread_timers_, t, n, clock),
              entries_, result, files)

add_bytes_off(t, n, b) ==
    stub_call(t, "add_bytes", n, thread_timers_, StubRegistry(entries_, n, b),
              result, files)

entries_off(t) ==
    stub_call(t, "entries", "", thread_timers_, entries_,
              [result EXCEPT ![t] = StubEntries(entries_)], files)

clear_off(t) ==
    stub_call(t, "clear", "", thread_timers_, StubRegistry(entries_, "", 0),
              result, files)

dump_profile_off(t, vec, path) ==
    stub_call(t, "dump_profile", "", thread_timers_, entries_, result,
              StubDump(files, vec, path))

\* explicit ScopedTimer(const char*) {}
ScopedTimer_off_ctor(t, n) ==
    /\ pc[t] = "idle"
    /\ ops < MaxOps
    /\ Len(guards[t]) < MaxDepth
    /\ ops' = ops + 1
    /\ guards' = [guards EXCEPT ![t] = Append(@, n)]
    /\ last' = <<"ScopedTimer", n, 0>>
    /\ UNCHANGED <<clock, thread_timers_, entries_, mutex_, pc, frame, result,
                   files, cerr, cout, cycles, pending, tally>>

\* the implicit destructor of the stub
ScopedTimer_off_dtor(t) ==
    /\ pc[t] = "idle"
    /\ guards[t] # <<>>
    /\ ops < MaxOps
    /\ ops' = ops + 1
    /\ guards' = [guards EXCEPT ![t] = SubSeq(@, 1, Len(@) - 1)]
    /\ last' = <<"~ScopedTimer", guards[t][Len(guards[t])], 0>>
    /\ UNCHANGED <<clock, thread_timers_, entries_, mutex_, pc, frame, result,
                   files, cerr, cout, cycles, pending, tally>>

\* the files may exist before the program runs
InitOff == InitOf(Threads) /\ files \in [Paths -> {NoFile, EarlierRun}]

NextOff ==
    \/ Tick
    \/ \E t \in Threads, n \in Names : start_off(t, n)
    \/ \E t \in Threads, n \in Names : stop_off(t, n)
    \/ \E t \in Threads, n \in Names, b \in ByteCounts : add_bytes_off(t, n, b)
    \/ \E t \in Threads : entries_off(t)
    \/ \E t \in Threads : clear_off(t)
    \/ \E t \in Threads, vec \in DumpArgs, path \in Paths : dump_profile_off(t, vec, path)
    \/ \E t \in Threads, n \in Names : ScopedTimer_off_ctor(t, n)
    \/ \E t \in Threads : ScopedTimer_off_dtor(t)

SpecOff == InitOff /\ [][NextOff]_vars

\* ------------------------------------------------------------- properties
\* C1: when every one of the NumThreads threads has finished its NumCycles
\* start/stop cycles on one name, the entry for that name has
\* calls = NumThreads * NumCycles and total_seconds = the sum of the durations
\* the threads measured, whatever the interleaving (no update is lost).
C1_NoLostUpdate ==
    Finished =>
        /\ Calls(CycleName) = NumThreads * NumCycles
        /\ Seconds(CycleName) = tally[CycleName].secs

\* all cycles done, two of them having lasted a tick each
C1_Witness == Finished /\ Seconds(CycleName) >= 2

\* C2: stop(name) on a thread with no start(name) since its last successful
\* stop(name) is a no-op: the registry, the timers of every thread and the
\* mutex are unchanged, and the call returns at once.
C2_UnpairedStopInert ==
    [][\A t \in Threads, n \in Names :
         (stop(t, n) /\ pending[t][n].count = 0) =>
             UNCHANGED <<entries_, thread_timers_, mutex_, pc, frame, result, files, cerr, cout>>]_vars

\* a second stop after a start and a stop that recorded one call
C2_Witness ==
    \E t \in Threads, n \in Names :
        /\ last = <<"stop_noop", n, t>>
        /\ TimerFound(thread_timers_[t], n)
        /\ Calls(n) = 1

\* C3: for every name, calls equals the number of ScopedTimer scopes on that
\* name that have been left since the registry was last cleared, nested scopes
\* on the same name and thread included.
C3_CallsCountScopes == \A n \in Names : Calls(n) = tally[n].scopes

\* C4: the construction of a ScopedTimer calls start(name) once, and its
\* destruction, on every way out of the scope, calls stop(name) once; the
\* guards of a thread change in no other way.
C4_GuardStartsAndStopsOnce ==
    [][\A t \in Threads :
         guards'[t] # guards[t] =>
            \/ \E n \in Names :
                 /\ guards'[t] = Append(guards[t], n)
                 /\ last' = <<"start", n, 0>>
                 /\ TimerActive(thread_timers_'[t], n)
                 /\ thread_timers_'[t][n].start_time = clock
                 /\ ops' = ops + 1
            \/ /\ guards[t] # <<>>
               /\ guards'[t] = SubSeq(guards[t], 1, Len(guards[t]) - 1)
               /\ last'[1] \in {"stop", "stop_noop", "stop_noop_restarted"}
               /\ last'[2] = guards[t][Len(guards[t])]
               /\ last'[3] = t
               /\ ~TimerActive(thread_timers_'[t], guards[t][Len(guards[t])])
               /\ ops' = ops + 1]_vars

\* a guard has been destroyed and its stop is on the way to the registry
C4_Witness ==
    \E t \in Threads :
        /\ pc[t] = "stop_acquire"
        /\ frame[t].scoped
        /\ last = <<"stop", frame[t].key, t>>
        /\ guards[t] = <<>>

\* C5: start(name) changes the calling thread's timer for that name and
\* nothing else: not the registry, not the mutex, not another thread's timers;
\* and a name no stop has returned for since the last clear has no calls and
\* no seconds.
C5_StartIsThreadPrivate ==
    /\ [](\A n \in Names : tally[n].stops = 0 => Calls(n) = 0 /\ Seconds(n) = 0)
    /\ [][\A t \in Threads, n \in Names :
            start(t, n) =>
               /\ UNCHANGED <<entries_, mutex_, pc, frame, result, files, cerr, cout>>
               /\ \A u \in Threads \ {t} : thread_timers_'[u] = thread_timers_[u]
               /\ \A m \in DOMAIN thread_timers_[t] \ {n} :
                     thread_timers_'[t][m] = thread_timers_[t][m]]_vars

\* a start that went through while another thread held the mutex
C5_Witness ==
    \E n \in Names :
        /\ last = <<"start", n, 0>>
        /\ mutex_ # NoOwner
        /\ pc[mutex_] # "idle"
        /\ \E t \in Threads \ {mutex_} : TimerActive(thread_timers_[t], n)
        /\ Calls(n) = 0

\* C6: after two starts with no stop between them, the stop measures from the
\* second start; every successful stop adds one call and its duration to the
\* entry, and a stop with no start before it adds nothing.
C6_LastStartWins ==
    /\ \A t \in Threads :
          (pc[t] \in {"stop_acquire", "stop_merge"} /\ frame[t].starts = 2) =>
              frame[t].elapsed = frame[t].span
    /\ \A n \in Names : Calls(n) = tally[n].stops /\ Seconds(n) = tally[n].secs

\* start, start a tick later, stop, and one more stop: one call, no seconds
C6_Witness ==
    \E t \in Threads, n \in Names :
        /\ last = <<"stop_noop_restarted", n, t>>
        /\ thread_timers_[t][n].start_time = 1
        /\ Calls(n) = 1
        /\ Seconds(n) = 0

\* C7: add_bytes(name, b) creates the entry if it is absent and adds b to its
\* total_bytes; its calls and total_seconds, every other entry and every
\* timer stay as they were.
C7_AddBytesFrame ==
    [][\A t \in Threads :
         /\ \A n \in Names, b \in ByteCounts :
               add_bytes(t, n, b) =>
                  /\ DOMAIN entries_' = DOMAIN entries_ \cup {n}
                  /\ entries_'[n] = Lookup(entries_, n, ProfileEntry)
                  /\ \A m \in DOMAIN entries_ : entries_'[m] = entries_[m]
                  /\ thread_timers_' = thread_timers_
         /\ add_bytes_merge(t) =>
               LET n == frame[t].key
               IN  /\ DOMAIN entries_' = DOMAIN entries_
                   /\ n \in DOMAIN entries_
                   /\ entries_'[n].total_bytes = entries_[n].total_bytes + frame[t].bytes
                   /\ entries_'[n].calls = entries_[n].calls
                   /\ entries_'[n].total_seconds = entries_[n].total_seconds
                   /\ entries_'[n].name = n
                   /\ \A m \in DOMAIN entries_ \ {n} : entries_'[m] = entries_[m]
                   /\ thread_timers_' = thread_timers_]_vars

\* bytes reported for a name that was never timed, beside a timed entry
C7_Witness ==
    \E n \in Names, m \in Names :
        /\ last = <<"add_bytes_merge", n, 0>>
        /\ n # m
        /\ n \in DOMAIN entries_
        /\ entries_[n] = [name |-> n, calls |-> 0, total_seconds |-> 0, total_bytes |-> 3]
        /\ Calls(m) = 1
        /\ \A t \in Threads : ~TimerFound(thread_timers_[t], n)

\* C8: the vector entries() returns holds each entry of the registry once,
\* with its field values, in an order of non-increasing total_seconds, and
\* the call leaves the registry as it was.
C8_EntriesSortedCopy ==
    /\ [](\A t \in Threads :
            pc[t] = "entries_return" =>
               /\ Len(result[t]) = Cardinality(DOMAIN entries_)
               /\ \A n \in DOMAIN entries_ :
                     \E i \in 1..Len(result[t]) : result[t][i] = entries_[n]
               /\ \A i, j \in 1..Len(result[t]) :
                     i < j => result[t][i].total_seconds >= result[t][j].total_seconds)
    /\ [][\A t \in Threads :
            (entries(t) \/ entries_copy(t) \/ entries_sort(t) \/ entries_return(t)) =>
                entries_' = entries_]_vars

\* two entries returned, the one with more seconds first
C8_Witness ==
    \E t \in Threads :
        /\ pc[t] = "entries_return"
        /\ Len(result[t]) = 2
        /\ result[t][1].total_seconds > result[t][2].total_seconds

\* C9: clear() empties the registry and leaves every timer as it was: an
\* entries() right after it copies nothing, a stop on a timer started before
\* the clear still goes to the registry, and it leaves a fresh entry with
\* calls = 1, its duration, and total_bytes = 0.
C9_ClearKeepsTimers ==
    [][\A t \in Threads :
         /\ clear_erase(t) =>
               entries_' = EmptyMap /\ thread_timers_' = thread_timers_
         /\ (entries(t) /\ last[1] = "clear_erase") =>
               result'[t] = <<>> /\ frame'[t].seen = EmptyMap
         /\ (entries_copy(t) /\ frame[t].seen = EmptyMap) => result'[t] = <<>>
         /\ \A n \in Names :
               (stop(t, n) /\ pending[t][n].stale) =>
                   pc'[t] = "stop_acquire" /\ frame'[t].key = n
         /\ (stop_merge(t) /\ frame[t].stale /\ frame[t].entry = ProfileEntry) =>
               entries_'[frame[t].key] =
                   [name |-> frame[t].key, calls |-> 1,
                    total_seconds |-> frame[t].elapsed, total_bytes |-> 0]]_vars

\* the stop of a timer started before the clear has made the only entry
C9_Witness ==
    \E t \in Threads, n \in Names :
        /\ last = <<"stop_merge_stale", n, t>>
        /\ DOMAIN entries_ = {n}
        /\ entries_[n].calls = 1
        /\ entries_[n].total_bytes = 0

\* C10: in the build without GENIE_PROFILE no call changes the registry, a
\* timer, the mutex or a file, and entries() returns an empty vector.
C10_NoProfileInert ==
    /\ [](entries_ = EmptyMap /\ \A t \in Threads : result[t] = <<>>)
    /\ [][UNCHANGED <<entries_, thread_timers_, mutex_, files, cerr, cout>>]_vars

\* four calls made, the last a dump_profile onto an existing file
C10_Witness ==
    /\ ops = MaxOps
    /\ last = <<"dump_profile", "", 0>>
    /\ files["out.csv"] = EarlierRun
    /\ \E t \in Threads : guards[t] # <<>>

\* C11: dump_profile returns to its caller and leaves the registry and the
\* mutex alone whatever it is given; for an empty vector it writes the warning
\* to std::cerr and no file is created, truncated or written; for a file that
\* does not open it writes the error naming the file and no file is written.
C11_DumpFailuresAreQuiet ==
    [][\A t \in Main, vec \in DumpVectors, f \in DumpPaths, opens \in BOOLEAN :
          dump_profile(t, vec, f, opens) =>
             /\ entries_' = entries_ /\ mutex_' = mutex_ /\ pc'[t] = "idle"
             /\ thread_timers_' = thread_timers_
             /\ vec = <<>> =>
                   /\ files' = files
                   /\ cerr' = Append(cerr, <<"Warning: No profiling data collected">>)
                   /\ cout' = cout
             /\ (vec # <<>> /\ ~opens) =>
                   /\ files' = files
                   /\ Len(cerr') = Len(cerr) + 1
                   /\ cerr'[Len(cerr')] =
                         <<"Error: Could not open profile output file: ", f>>
                   /\ cout' = cout]_vars

\* an empty vector, then a file that did not open: both diagnostics written,
\* the file of an earlier run still there, the registry still holding an entry
C11_Witness ==
    /\ Len(cerr) = 2
    /\ cerr[1] = <<"Warning: No profiling data collected">>
    /\ cerr[2] = <<"Error: Could not open profile output file: ", "out.csv">>
    /\ cout = <<>>
    /\ \A f \in DumpPaths : files[f] = EarlierRun
    /\ DOMAIN entries_ # {}

\* the names on the "name" lines of a JSON text, in their order
JsonNames(text) ==
    LET lines == SelectSeq(text, LAMBDA ln : Len(ln) = 2)
        named == SelectSeq(lines, LAMBDA ln : ln[1] = "name")
    IN  [i \in 1..Len(named) |-> named[i][2]]

\* C12: a dump_profile that writes a file writes the JSON array when the file
\* name ends in ".json" (here "out.json" and ".json") and CSV for every other
\* name: the header line, then one row per entry in the order of the vector.
C12_FormatBySuffix ==
    [][\A t \in Main, vec \in DumpVectors, f \in DumpPaths :
          (dump_profile(t, vec, f, TRUE) /\ vec # <<>>) =>
             IF f \in {"out.json", ".json"}
             THEN /\ files'[f][1] = <<"[">>
                  /\ files'[f][Len(files'[f])] = <<"]">>
                  /\ JsonNames(files'[f]) = [i \in 1..Len(vec) |-> vec[i].name]
             ELSE /\ files'[f][1] = <<"name,calls,total_seconds,avg_seconds,total_bytes">>
                  /\ Len(files'[f]) = Len(vec) + 1
                  /\ \A i \in 1..Len(vec) :
                        /\ files'[f][i + 1][1] = vec[i].name
                        /\ files'[f][i + 1][2] = vec[i].calls
                        /\ files'[f][i + 1][3] = <<vec[i].total_seconds, 0>>
                        /\ files'[f][i + 1][5] = vec[i].total_bytes]_vars

\* "json" has no suffix ".json" and got CSV; ".json" is all suffix and got JSON
C12_Witness ==
    /\ files["json"][1] = <<CsvHeader>>
    /\ Len(files["json"]) = 3
    /\ files[".json"][1] = <<"[">>
    /\ Len(cout) = 2

\* total_seconds and avg_seconds of a CSV row, in millionths of a second
RowSeconds(row) == row[3][1] * 1000000 + row[3][2]
RowAvg(row) == row[4][1] * 1000000 + row[4][2]

\* C20: in every CSV file written, the avg_seconds of a row with calls > 0 is
\* total_seconds / calls to the nearest millionth, and that of a row with
\* calls = 0 is 0.000000.
C20_AvgGuardsZeroCalls ==
    \A f \in DumpPaths :
        files[f][1] = <<"name,calls,total_seconds,avg_seconds,total_bytes">> =>
            \A i \in 2..Len(files[f]) :
                LET row == files[f][i]
                    off == RowAvg(row) * row[2] - RowSeconds(row)
                IN  IF row[2] > 0
                    THEN 2 * off <= row[2] /\ -2 * off <= row[2]
                    ELSE RowAvg(row) = 0

\* a CSV file with a row of 3 calls in 2 seconds and a row of no calls, and
\* one with the row of 4 calls in 2 seconds
C20_Witness ==
    \E f, g \in DumpPaths :
        /\ files[f][1] = <<CsvHeader>> /\ Len(files[f]) = 3
        /\ files[f][2][2] = 3 /\ files[f][2][4] = <<0, 666667>>
        /\ files[f][3][2] = 0 /\ files[f][3][4] = <<0, 0>>
        /\ files[g][1] = <<CsvHeader>> /\ Len(files[g]) = 2
        /\ files[g][2][2] = 4 /\ files[g][2][4] = <<0, 500000>>

\* a thread is between the lock and the unlock of one of the four operations
InSection(t) ==
    pc[t] \in {"stop_merge", "add_bytes_merge", "entries_copy", "entries_sort",
               "entries_return", "clear_erase"}

\* C13: a thread between the lock and the unlock of stop, add_bytes, entries
\* or clear owns the mutex, so at most one thread is there; every step that
\* reads or writes the registry is taken by the owner of the mutex, having
\* found it free or its own; only a thread's own start and stop change its
\* timers.
C13_RegistryUnderMutex ==
    /\ [](\A t \in Threads : InSection(t) => mutex_ = t)
    /\ [](Cardinality({t \in Threads : InSection(t)}) <= 1)
    /\ [][\A t \in Threads :
            (\/ stop_acquire(t) \/ stop_merge(t)
             \/ \E n \in Names, b \in ByteCounts : add_bytes(t, n, b)
             \/ add_bytes_merge(t)
             \/ entries(t) \/ entries_copy(t)
             \/ clear(t) \/ clear_erase(t)) =>
                /\ mutex_ \in {NoOwner, t}
                /\ mutex_ = t \/ mutex_' = t]_vars
    /\ [][entries_' # entries_ =>
            \E t \in Threads : pc'[t] # pc[t] /\ (mutex_ = t \/ mutex_' = t)]_vars
    /\ [][\A u \in Threads :
            thread_timers_'[u] # thread_timers_[u] =>
                \E n \in Names : start(u, n) \/ stop(u, n)]_vars

\* one thread between the two halves of add_bytes, the other waiting with
\* the stop of the same name
C13_Witness ==
    \E t, u \in Threads :
        /\ pc[t] = "add_bytes_merge"
        /\ mutex_ = t
        /\ pc[u] = "stop_acquire"
        /\ frame[u].key = frame[t].key

\* C14: calls and total_seconds of every entry are never negative, and in
\* every step that is not the erasure of clear() every entry stays in the
\* registry with calls and total_seconds no smaller than before.
C14_EntriesOnlyGrow ==
    /\ [](\A n \in DOMAIN entries_ :
            entries_[n].calls >= 0 /\ entries_[n].total_seconds >= 0)
    /\ [][(\A t \in Threads : ~clear_erase(t)) =>
            \A n \in DOMAIN entries_ :
                /\ n \in DOMAIN entries_'
                /\ entries_'[n].calls >= entries_[n].calls
                /\ entries_'[n].total_seconds >= entries_[n].total_seconds]_vars

\* an entry that has grown twice, once by a tick
C14_Witness ==
    \E n \in Names :
        /\ last[1] = "stop_merge"
        /\ Calls(n) = 2
        /\ Seconds(n) = 1

\* C15: a thread about to sort the copy in entries() no longer owns the mutex.
C15_SortOutsideLock ==
    \A t \in Threads : pc[t] = "entries_sort" => mutex_ # t

\* C16: the vector entries() builds is the registry as it was at one instant
\* of the call, the instant the lock was taken: what has been copied so far
\* are entries of that registry, and the vector sorted and returned holds
\* each of them once, whatever the other threads do meanwhile.
C16_SnapshotAtOneInstant ==
    \A t \in Threads :
        /\ pc[t] \in {"entries_copy", "entries_sort", "entries_return"} =>
              /\ \A i \in 1..Len(result[t]) :
                    /\ result[t][i].name \in DOMAIN frame[t].seen
                    /\ result[t][i] = frame[t].seen[result[t][i].name]
              /\ \A i, j \in 1..Len(result[t]) :
                    i # j => result[t][i].name # result[t][j].name
        /\ pc[t] \in {"entries_sort", "entries_return"} =>
              Len(result[t]) = Cardinality(DOMAIN frame[t].seen)

\* a vector with the entry of a name whose next stop, on the other thread,
\* waits for the lock
C16_Witness ==
    \E t, u \in Threads :
        /\ pc[t] = "entries_return"
        /\ Len(result[t]) = 1
        /\ pc[u] = "stop_acquire"
        /\ frame[u].key = result[t][1].name

\* C17: a stop(name) on a thread that has made no start(name) of its own,
\* while another thread has one running, changes no timer and not the
\* registry; a stop(name) on a thread with a start(name) of its own measures
\* from that start, ends that timer and no other, and its merge adds one call
\* and that duration to the entry.
C17_TimersPerThreadAndName ==
    [][\A t \in Threads :
         /\ \A n \in Names :
               /\ (/\ stop(t, n)
                   /\ pending[t][n].count = 0
                   /\ \E u \in Threads \ {t} : pending[u][n].count > 0) =>
                      UNCHANGED <<entries_, thread_timers_, mutex_, pc>>
               /\ (stop(t, n) /\ pending[t][n].count > 0) =>
                      /\ pc'[t] = "stop_acquire"
                      /\ frame'[t].elapsed = clock - pending[t][n].at
                      /\ ~TimerActive(thread_timers_'[t], n)
                      /\ \A u \in Threads \ {t} : thread_timers_'[u] = thread_timers_[u]
                      /\ \A m \in DOMAIN thread_timers_[t] \ {n} :
                            thread_timers_'[t][m] = thread_timers_[t][m]
         /\ stop_merge(t) =>
               /\ entries_'[frame[t].key].calls = entries_[frame[t].key].calls + 1
               /\ entries_'[frame[t].key].total_seconds =
                     entries_[frame[t].key].total_seconds + frame[t].span]_vars

\* a stop on the thread that never started the name, the other thread's timer
\* for it still running
C17_Witness ==
    \E t, u \in Threads, n \in Names :
        /\ t # u
        /\ last = <<"stop_noop", n, u>>
        /\ ~TimerFound(thread_timers_[u], n)
        /\ TimerActive(thread_timers_[t], n)

\* C19: while a stop waits for the lock or holds it, the thread's timer is
\* already inactive and the duration it carries is the time from the thread's
\* last start to the entry of stop, whatever the clock does meanwhile; that
\* duration is what the merge adds to total_seconds.
C19_StopTimeAtEntry ==
    /\ [](\A t \in Threads :
            pc[t] \in {"stop_acquire", "stop_merge"} =>
                /\ ~TimerActive(thread_timers_[t], frame[t].key)
                /\ frame[t].elapsed = frame[t].span)
    /\ [][\A t \in Threads :
            /\ (pc[t] = "stop_acquire" /\ pc'[t] # "idle") =>
                  frame'[t].elapsed = frame[t].elapsed
            /\ stop_merge(t) =>
                  entries_'[frame[t].key].total_seconds =
                      entries_[frame[t].key].total_seconds + frame[t].elapsed]_vars

\* the clock has ticked since the stop was entered; the duration it merges is
\* still the 0 ticks between the start and the entry
C19_Witness ==
    \E t \in Threads :
        /\ pc[t] = "stop_merge"
        /\ frame[t].elapsed = 0
        /\ thread_timers_[t][frame[t].key].start_time = 0
        /\ clock = 1

\* C18: under fair scheduling a thread inside a call gets back to its caller
\* and a held mutex is released; the mutex is taken only when it is free,
\* never by the thread that holds it, and a thread that has returned does not
\* own it.
C18_EveryCallReturns ==
    /\ \A t \in Threads : (pc[t] # "idle") ~> (pc[t] = "idle")
    /\ (mutex_ # NoOwner) ~> (mutex_ = NoOwner)
    /\ [](\A t \in Threads : pc[t] = "idle" => mutex_ # t)
    /\ [][\A t \in Threads :
            (\/ stop_acquire(t)
             \/ \E n \in Names, b \in ByteCounts : add_bytes(t, n, b)
             \/ entries(t)
             \/ clear(t)) => mutex_ = NoOwner /\ mutex_' = t]_vars

\* a stop waiting for the mutex while the other thread is inside clear()
C18_Witness ==
    \E t, u \in Threads :
        /\ pc[t] = "clear_erase"
        /\ mutex_ = t
        /\ pc[u] = "stop_acquire"
====
